---- MODULE Spec2Model ----
(***************************************************************************)
(* LiquiVerde recommendation core and the views that drive it.            *)
(*                                                                         *)
(* Spec           the shopping-list optimizer                              *)
(*                (MultiObjectiveKnapsackOptimizer, knapsack_optimizer.md) *)
(*                with the substitution fallback: one optimize call is     *)
(*                match -> select -> fit -> (greedy) -> (upgrade) ->       *)
(*                build -> done.                                           *)
(* SpecScorer     SustainabilityScorer.calculate_score on one product;     *)
(* SpecOverall    overall_score on given sub-scores.                       *)
(* SpecEngine     SubstitutionEngine.find_substitutes on one pool;         *)
(* SpecConfidence the confidence level of one suggestion.                  *)
(* SpecUI         the React state of App and of the optimizer view, the    *)
(*                product comparator, the dashboard and the store map;     *)
(* SpecToast      the toasts of ToastProvider and their timers, and        *)
(* FairToast      the same when seconds pass and due timers fire.          *)
(*                                                                         *)
(* Each specification runs one component and leaves the others at rest.    *)
(***************************************************************************)
EXTENDS Integers, Sequences, FiniteSets, TLC

VARIABLES
    \* -- MultiObjectiveKnapsackOptimizer.optimize
    catalog,        \* available_products, in catalog order
    items,          \* shopping_list.items
    budget,         \* shopping_list.budget (NoBudget = null)
    optimize_for,   \* shopping_list.optimize_for
    engineAnswer,   \* what engine.find_substitutes_by_name returns
    pc,             \* phase of the optimize call
    idx,            \* loop position inside the current phase
    candidates,     \* item index -> candidate product ids, in catalog order
    selections,     \* item index -> phase-2 product id (0 = none)
    chosen,         \* item index -> product id after budget fitting (0 = none)
    sorted_items,   \* item indexes in efficiency order (step 3)
    included,       \* item indexes retained by budget fitting, in order
    current_cost,   \* running total of the greedy loop / upgrade step
    fit_step,       \* which step of _fit_to_budget returned (0 = not yet)
    warnings,       \* accumulated warnings
    result,         \* the OptimizationResult (NoResult until built)
    \* -- SubstitutionEngine.find_substitutes
    original,       \* id of the product to substitute (0 = no call)
    pool,           \* candidate pool: product ids, in catalog order
    preferences,    \* user_preferences: set of preference names
    max_results,    \* how many suggestions the caller asked for
    stage,          \* step of the find_substitutes flow
    working,        \* candidates carried from one step to the next
    suggestions,    \* the returned SubstitutionSuggestions
    sug_similarity, \* similarity of the suggestion being classified
    sug_quality,    \* substitution-quality score of that suggestion
    confidence,     \* its confidence level ("" until classified)
    \* -- SustainabilityScorer.calculate_score
    attrs,          \* the attributes of the product being scored
    sub_scores,     \* economic / environmental / social / health
    overall,        \* overall score, in hundredths
    scorer_pc,      \* step of calculate_score
    \* -- App / ShoppingListOptimizer / ProductComparator (React state)
    activeTab,        \* App: the tab on screen
    navigationData,   \* App: data handed to the next tab (NoData = null)
    optimizerResult,  \* optimizer tab: selected product ids of its result
    loading,          \* optimizer tab: its loading flag
    optimizeInFlight, \* optimizer tab: requests of this view in flight
    orphanInFlight,   \* an optimize request of a view since unmounted
    products,         \* comparator: loaded product ids
    selectedProducts, \* comparator: ids selected for comparison
    comparison,       \* comparator: <<ids compared>> (NoData = null)
    pendingCompare,   \* comparator: <<ids>> of the compare request in flight
    dashPhase,        \* dashboard: unmounted, loading or settled
    dashLoading,      \* dashboard: its loading flag
    dashRequests,     \* dashboard: the state of each of the four requests
    dashData,         \* dashboard: what each of the four data states holds
    filterOrganic,    \* store map: organic checkbox
    filterLocal,      \* store map: local checkbox
    shownStores,      \* store map: the stores in the rendered list
    toasts,           \* ToastProvider: ids of the toasts on screen
    timers            \* Toast: seconds left on each toast's timer

optVars == <<catalog, items, budget, optimize_for, engineAnswer, pc, idx,
             candidates, selections, chosen, sorted_items, included,
             current_cost, fit_step, warnings, result>>
engineVars == <<original, pool, preferences, max_results, stage, working,
                suggestions, sug_similarity, sug_quality, confidence>>
scorerVars == <<attrs, sub_scores, overall, scorer_pc>>
appVars == <<activeTab, navigationData>>
optimizerViewVars == <<optimizerResult, loading, optimizeInFlight>>
comparatorVars == <<products, selectedProducts, comparison, pendingCompare>>
dashboardVars == <<dashPhase, dashLoading, dashRequests, dashData>>
storeMapVars == <<filterOrganic, filterLocal, shownStores>>
toastVars == <<toasts, timers>>
uiVars == <<appVars, optimizerViewVars, orphanInFlight, comparatorVars,
            dashboardVars, storeMapVars, toastVars>>

vars == <<optVars, engineVars, scorerVars, uiVars>>

----------------------------------------------------------------------------
(* Bounds and input domains *)

MaxItems == 2

\* a budget is <<b>>, or <<>> when the request leaves it null
NoBudget == <<>>
NoResult == "none"

FiniteBudgets == {-1, 3, 5, 6, 12, 15, 20}
Budgets == {NoBudget} \cup {<<b>> : b \in FiniteBudgets}

ValidFocus == {"price", "sustainability", "health", "balanced"}
Focuses == ValidFocus \cup {"cheapest"}

----------------------------------------------------------------------------
(* Strings are sequences of characters so that matching is computed *)

Upper == [c \in {"L", "S", "B", "E", "P", "C", "Y", "U", "H", "T"} |->
            CASE c = "L" -> "l" [] c = "S" -> "s" [] c = "B" -> "b"
              [] c = "E" -> "e" [] c = "P" -> "p" [] c = "C" -> "c"
              [] c = "Y" -> "y" [] c = "U" -> "u" [] c = "H" -> "h"
              [] c = "T" -> "t"]

\* str.lower()
Lower(s) == [i \in 1..Len(s) |-> IF s[i] \in DOMAIN Upper THEN Upper[s[i]] ELSE s[i]]

\* sub in s
Contains(sub, s) ==
    \E i \in 1..(Len(s) - Len(sub) + 1) : SubSeq(s, i, i + Len(sub) - 1) = sub

\* s.split()[0]
FirstWord(s) ==
    LET spaces == {i \in 1..Len(s) : s[i] = " "}
    IN  IF spaces = {} THEN s
        ELSE SubSeq(s, 1, (CHOOSE i \in spaces : \A j \in spaces : i <= j) - 1)

----------------------------------------------------------------------------
(* The product universe and the shopping-list item pool *)

Universe == <<
    [id |-> 1, name |-> <<"L","e","c","h","e"," ","S","u","r">>, category |-> "dairy",
     price |-> 3, overall_score |-> 50, health_score |-> 50, price_score |-> 80,
     labels |-> {}],
    [id |-> 2, name |-> <<"L","e","c","h","e"," ","B","i","o">>, category |-> "dairy",
     price |-> 3, overall_score |-> 80, health_score |-> 50, price_score |-> 80,
     labels |-> {"organic"}],
    [id |-> 3, name |-> <<"L","e","c","h","e"," ","E","c","o">>, category |-> "dairy",
     price |-> 6, overall_score |-> 80, health_score |-> 70, price_score |-> 40,
     labels |-> {"organic", "local"}],
    [id |-> 4, name |-> <<"P","a","n">>, category |-> "bakery",
     price |-> 1, overall_score |-> 40, health_score |-> 40, price_score |-> 90,
     labels |-> {}],
    [id |-> 5, name |-> <<"C","o","c","o"," ","L","e","c","h","e">>, category |-> "pantry",
     price |-> 2, overall_score |-> 60, health_score |-> 60, price_score |-> 85,
     labels |-> {"vegan"}],
    [id |-> 6, name |-> <<"Y","o","g","u","r">>, category |-> "dairy",
     price |-> 4, overall_score |-> 60, health_score |-> 70, price_score |-> 60,
     labels |-> {}] >>

Product(pid) == Universe[pid]

CatalogShapes == { {}, {1, 2, 3, 4, 5, 6}, {1, 2, 3, 4, 6}, {2, 3, 5}, {1, 4, 6} }

\* the catalog holding the products of shape S, in catalog order
CatalogOf(S) == SelectSeq(Universe, LAMBDA p : p.id \in S)

ItemPool == {
    [product_name |-> <<"l","e","c","h","e">>, category |-> "dairy",
     quantity |-> 1, priority |-> 1, preferences |-> {}],
    [product_name |-> <<"P","a","n">>, category |-> "bakery",
     quantity |-> 1, priority |-> 5, preferences |-> {}],
    [product_name |-> <<"L","e","c","h","e"," ","U","H","T">>, category |-> "dairy",
     quantity |-> 1, priority |-> 5, preferences |-> {"organic"}],
    [product_name |-> <<"q","u","e","s","o">>, category |-> "dairy",
     quantity |-> 2, priority |-> 1, preferences |-> {}],
    [product_name |-> <<"p","a","n">>, category |-> "bakery",
     quantity |-> 5, priority |-> 1, preferences |-> {}],
    [product_name |-> <<"m","i","e","l">>, category |-> "honey",
     quantity |-> 1, priority |-> 5, preferences |-> {}] }

ItemLists == UNION {[1..n -> ItemPool] : n \in 0..MaxItems}

----------------------------------------------------------------------------
(* Small sequence helpers *)

RECURSIVE SumSeq(_)
SumSeq(s) == IF s = <<>> THEN 0 ELSE Head(s) + SumSeq(Tail(s))

Range(s) == {s[i] : i \in 1..Len(s)}

\* ids of a product sequence
Ids(ps) == [i \in 1..Len(ps) |-> ps[i].id]

----------------------------------------------------------------------------
(* Phase 1: candidate matching *)

\* 1. exact match: the search term is contained in the product name
ExactMatches(item) ==
    SelectSeq(catalog, LAMBDA p : Contains(Lower(item.product_name), Lower(p.name)))

\* 2. partial match: the first word coincides
PartialMatches(item) ==
    SelectSeq(catalog, LAMBDA p :
        FirstWord(Lower(item.product_name)) = FirstWord(Lower(p.name)))

\* 3. fallback: all products of the item's category
CategoryMatches(item) ==
    SelectSeq(catalog, LAMBDA p : p.category = item.category)

_find_candidate_products(item) ==
    IF ExactMatches(item) # <<>> THEN Ids(ExactMatches(item))
    ELSE IF PartialMatches(item) # <<>> THEN Ids(PartialMatches(item))
    ELSE Ids(CategoryMatches(item))

\* candidates after the substitution-engine fallback
FallbackCandidates(found, similar) ==
    IF found = <<>> /\ similar # <<>> THEN similar ELSE found

\* a fallback that warns whether or not it found substitutes
FallbackWarnsAlways(found, similar) == found = <<>>

\* the fallback appends its warning only when it supplied the candidates
FallbackWarns(found, similar) == found = <<>> /\ similar # <<>>

Warning(kind, i) == [kind |-> kind, item |-> i]

\* an item left without candidates is marked unmatched, with a warning
UnmatchedWarning(cands, i) ==
    IF cands = <<>> THEN <<Warning("unmatched", i)>> ELSE <<>>

MatchItem ==
    /\ pc = "match"
    /\ idx <= Len(items)
    /\ LET found == _find_candidate_products(items[idx])
           cands == FallbackCandidates(found, engineAnswer)
       IN  /\ candidates' = [candidates EXCEPT ![idx] = cands]
           /\ warnings' = warnings
                  \o (IF FallbackWarns(found, engineAnswer)
                      THEN <<Warning("substituted", idx)>> ELSE <<>>)
                  \o UnmatchedWarning(cands, idx)
    /\ idx' = idx + 1
    /\ UNCHANGED <<engineVars, scorerVars, uiVars>>
    /\ UNCHANGED <<catalog, items, budget, optimize_for, engineAnswer, pc,
                   selections, chosen, sorted_items, included, current_cost,
                   fit_step, result>>

MatchDone ==
    /\ pc = "match"
    /\ idx > Len(items)
    /\ pc' = "select"
    /\ idx' = 1
    /\ UNCHANGED <<engineVars, scorerVars, uiVars>>
    /\ UNCHANGED <<catalog, items, budget, optimize_for, engineAnswer,
                   candidates, selections, chosen, sorted_items, included,
                   current_cost, fit_step, warnings, result>>

\* item indexes that have candidates, in list order
Matched == SelectSeq([i \in 1..Len(items) |-> i], LAMBDA i : candidates[i] # <<>>)

----------------------------------------------------------------------------
(* Phase 2: best-variant selection *)

\* a minimum whose last, not first, occurrence wins
LastMin(keys) ==
    CHOOSE i \in 1..Len(keys) :
        /\ \A j \in 1..Len(keys) : keys[i] <= keys[j]
        /\ \A j \in (i + 1)..Len(keys) : keys[j] > keys[i]

\* position min(...) returns: the first one attaining the minimum key
FirstMin(keys) ==
    CHOOSE i \in 1..Len(keys) :
        /\ \A j \in 1..Len(keys) : keys[i] <= keys[j]
        /\ \A j \in 1..(i - 1) : keys[j] > keys[i]

\* position max(...) returns: the first one attaining the maximum key
FirstMax(keys) ==
    CHOOSE i \in 1..Len(keys) :
        /\ \A j \in 1..Len(keys) : keys[i] >= keys[j]
        /\ \A j \in 1..(i - 1) : keys[j] < keys[i]

\* weights of the balanced score, in tenths
PRICE_WEIGHT == 3
SUSTAINABILITY_WEIGHT == 3
HEALTH_WEIGHT == 2
PREFERENCE_WEIGHT == 2

\* how many of the item's soft preference tags the candidate carries
preference_match(item, pid) ==
    Cardinality(item.preferences \cap Product(pid).labels)

\* ten times the balanced score
balanced_score(item, pid) ==
    PRICE_WEIGHT * Product(pid).price_score
    + SUSTAINABILITY_WEIGHT * Product(pid).overall_score
    + HEALTH_WEIGHT * Product(pid).health_score
    + PREFERENCE_WEIGHT * preference_match(item, pid)

\* the keys of the candidates, in candidate order
Prices(cands) == [k \in 1..Len(cands) |-> Product(cands[k]).price]
OverallScores(cands) == [k \in 1..Len(cands) |-> Product(cands[k]).overall_score]
HealthScores(cands) == [k \in 1..Len(cands) |-> Product(cands[k]).health_score]
BalancedScores(item, cands) == [k \in 1..Len(cands) |-> balanced_score(item, cands[k])]

_select_best_product(item, cands, focus) ==
    IF focus = "price" THEN cands[FirstMin(Prices(cands))]
    ELSE IF focus = "sustainability" THEN cands[FirstMax(OverallScores(cands))]
    ELSE IF focus = "health" THEN cands[FirstMax(HealthScores(cands))]
    ELSE cands[FirstMax(BalancedScores(item, cands))]

SelectItem ==
    /\ pc = "select"
    /\ idx <= Len(items)
    /\ selections' = [selections EXCEPT ![idx] =
            IF candidates[idx] = <<>> THEN 0
            ELSE _select_best_product(items[idx], candidates[idx], optimize_for)]
    /\ idx' = idx + 1
    /\ UNCHANGED <<engineVars, scorerVars, uiVars>>
    /\ UNCHANGED <<catalog, items, budget, optimize_for, engineAnswer, pc,
                   candidates, chosen, sorted_items, included, current_cost,
                   fit_step, warnings, result>>

SelectDone ==
    /\ pc = "select"
    /\ idx > Len(items)
    /\ pc' = "fit"
    /\ idx' = 1
    /\ UNCHANGED <<engineVars, scorerVars, uiVars>>
    /\ UNCHANGED <<catalog, items, budget, optimize_for, engineAnswer,
                   candidates, selections, chosen, sorted_items, included,
                   current_cost, fit_step, warnings, result>>

----------------------------------------------------------------------------
(* Phase 3: budget fitting (greedy knapsack) *)

\* the budget ceiling of a request that has one
Ceiling == budget[1]

\* costo = precio x cantidad
Cost(i, pid) == Product(pid).price * items[i].quantity

\* the cheapest variant of item i
select_cheapest(i) == candidates[i][FirstMin(Prices(candidates[i]))]

CostOf(is, choice) == SumSeq([k \in 1..Len(is) |-> Cost(is[k], choice[is[k]])])

cheap_selections == [i \in 1..Len(items) |->
                        IF candidates[i] = <<>> THEN 0 ELSE select_cheapest(i)]

original_cost == CostOf(Matched, selections)
cheap_cost == CostOf(Matched, cheap_selections)

\* a strict reading of "fits"
WithinBudgetStrict(cost, b) == IF b = NoBudget THEN TRUE ELSE cost < b[1]

\* if original_cost <= budget (an absent budget never constrains)
WithinBudget(cost, b) == IF b = NoBudget THEN TRUE ELSE cost <= b[1]

\* a step 1 that hands back the cheapest variants
Step1ResultCheap(sel, cheap) == cheap

\* step 1 returns the selections it was given
Step1Result(sel, cheap) == sel

\* a value that grows with the priority number
ValueInverted(i) == items[i].priority

\* efficiency = (6 - priority) / cost, compared without dividing
Value(i) == 6 - items[i].priority
CheapCost(i) == Cost(i, cheap_selections[i])
MoreEfficient(i, j) == Value(i) * CheapCost(j) > Value(j) * CheapCost(i)

\* an efficiency sort in ascending order
sort_by_efficiency_ascending(is) ==
    LET Before(i, j) == MoreEfficient(j, i) \/ (~MoreEfficient(i, j) /\ i < j)
        Rank(i) == 1 + Cardinality({j \in Range(is) : Before(j, i)})
    IN  [k \in 1..Len(is) |-> CHOOSE i \in Range(is) : Rank(i) = k]

\* items by descending efficiency, equal efficiencies in list order
sort_by_efficiency(is) ==
    LET Before(i, j) == MoreEfficient(i, j) \/ (~MoreEfficient(j, i) /\ i < j)
        Rank(i) == 1 + Cardinality({j \in Range(is) : Before(j, i)})
    IN  [k \in 1..Len(is) |-> CHOOSE i \in Range(is) : Rank(i) = k]

\* a fit test that forgets the running total
FitsBudgetAlone(cur, cost, b) == cost <= b

\* a fit test that forgets the item's own cost
FitsBudgetBefore(cur, cost, b) == cur <= b

\* if current_cost + item.cost <= budget
FitsBudget(cur, cost, b) == cur + cost <= b

\* Paso 1: everything fits with the original selection (or no budget is set)
FitKeep ==
    /\ pc = "fit"
    /\ WithinBudget(original_cost, budget)
    /\ chosen' = Step1Result(selections, cheap_selections)
    /\ included' = Matched
    /\ current_cost' = original_cost
    /\ fit_step' = 1
    /\ pc' = "build"
    /\ UNCHANGED <<engineVars, scorerVars, uiVars>>
    /\ UNCHANGED <<catalog, items, budget, optimize_for, engineAnswer, idx,
                   candidates, selections, sorted_items, warnings, result>>

\* Paso 2: switch to the cheapest variants, then upgrade
FitCheap ==
    /\ pc = "fit"
    /\ ~WithinBudget(original_cost, budget)
    /\ cheap_cost <= Ceiling
    /\ chosen' = cheap_selections
    /\ included' = Matched
    /\ current_cost' = cheap_cost
    /\ fit_step' = 2
    /\ pc' = "upgrade"
    /\ idx' = 1
    /\ UNCHANGED <<engineVars, scorerVars, uiVars>>
    /\ UNCHANGED <<catalog, items, budget, optimize_for, engineAnswer,
                   candidates, selections, sorted_items, warnings, result>>

\* Paso 3: sort the cheapest variants by efficiency
FitSort ==
    /\ pc = "fit"
    /\ ~WithinBudget(original_cost, budget)
    /\ cheap_cost > Ceiling
    /\ chosen' = cheap_selections
    /\ sorted_items' = sort_by_efficiency(Matched)
    /\ included' = <<>>
    /\ current_cost' = 0
    /\ fit_step' = 3
    /\ pc' = "greedy"
    /\ idx' = 1
    /\ UNCHANGED <<engineVars, scorerVars, uiVars>>
    /\ UNCHANGED <<catalog, items, budget, optimize_for, engineAnswer,
                   candidates, selections, warnings, result>>

\* a loop that stays on an item it could not fit
GreedyStepRetry ==
    /\ pc = "greedy"
    /\ idx <= Len(sorted_items)
    /\ LET i == sorted_items[idx]
       IN  IF FitsBudget(current_cost, CheapCost(i), Ceiling)
           THEN /\ included' = Append(included, i)
                /\ current_cost' = current_cost + CheapCost(i)
                /\ idx' = idx + 1
                /\ UNCHANGED <<chosen, warnings>>
           ELSE /\ chosen' = [chosen EXCEPT ![i] = 0]
                /\ warnings' = Append(warnings, Warning("excluded", i))
                /\ UNCHANGED <<included, current_cost, idx>>
    /\ UNCHANGED <<engineVars, scorerVars, uiVars>>
    /\ UNCHANGED <<catalog, items, budget, optimize_for, engineAnswer, pc,
                   candidates, selections, sorted_items, fit_step, result>>

\* one iteration of "for item in sorted_items"
GreedyStep ==
    /\ pc = "greedy"
    /\ idx <= Len(sorted_items)
    /\ LET i == sorted_items[idx]
       IN  IF FitsBudget(current_cost, CheapCost(i), Ceiling)
           THEN /\ included' = Append(included, i)
                /\ current_cost' = current_cost + CheapCost(i)
                /\ UNCHANGED <<chosen, warnings>>
           ELSE /\ chosen' = [chosen EXCEPT ![i] = 0]
                /\ warnings' = Append(warnings, Warning("excluded", i))
                /\ UNCHANGED <<included, current_cost>>
    /\ idx' = idx + 1
    /\ UNCHANGED <<engineVars, scorerVars, uiVars>>
    /\ UNCHANGED <<catalog, items, budget, optimize_for, engineAnswer, pc,
                   candidates, selections, sorted_items, fit_step, result>>

GreedyDone ==
    /\ pc = "greedy"
    /\ idx > Len(sorted_items)
    /\ pc' = "upgrade"
    /\ idx' = 1
    /\ UNCHANGED <<engineVars, scorerVars, uiVars>>
    /\ UNCHANGED <<catalog, items, budget, optimize_for, engineAnswer,
                   candidates, selections, chosen, sorted_items, included,
                   current_cost, fit_step, warnings, result>>

\* what it costs to move item i from its cheapest variant to its phase-2 choice
ExtraCost(i) == Cost(i, selections[i]) - CheapCost(i)

\* an upgrade pass that starts with the dearest upgrade
UpgradeOrderDescending(is) ==
    LET Pos(i) == CHOOSE k \in 1..Len(is) : is[k] = i
        Before(i, j) == ExtraCost(i) > ExtraCost(j)
                        \/ (ExtraCost(i) = ExtraCost(j) /\ Pos(i) < Pos(j))
        Rank(i) == 1 + Cardinality({j \in Range(is) : Before(j, i)})
    IN  [k \in 1..Len(is) |-> CHOOSE i \in Range(is) : Rank(i) = k]

\* the retained items by ascending additional cost, ties in retained order
UpgradeOrder(is) ==
    LET Pos(i) == CHOOSE k \in 1..Len(is) : is[k] = i
        Before(i, j) == ExtraCost(i) < ExtraCost(j)
                        \/ (ExtraCost(i) = ExtraCost(j) /\ Pos(i) < Pos(j))
        Rank(i) == 1 + Cardinality({j \in Range(is) : Before(j, i)})
    IN  [k \in 1..Len(is) |-> CHOOSE i \in Range(is) : Rank(i) = k]

\* one step of upgrade_if_possible
UpgradeStep ==
    /\ pc = "upgrade"
    /\ idx <= Len(included)
    /\ LET i == UpgradeOrder(included)[idx]
       IN  IF current_cost + ExtraCost(i) <= Ceiling
           THEN /\ chosen' = [chosen EXCEPT ![i] = selections[i]]
                /\ current_cost' = current_cost + ExtraCost(i)
           ELSE UNCHANGED <<chosen, current_cost>>
    /\ idx' = idx + 1
    /\ UNCHANGED <<engineVars, scorerVars, uiVars>>
    /\ UNCHANGED <<catalog, items, budget, optimize_for, engineAnswer, pc,
                   candidates, selections, sorted_items, included, fit_step,
                   warnings, result>>

UpgradeDone ==
    /\ pc = "upgrade"
    /\ idx > Len(included)
    /\ pc' = "build"
    /\ UNCHANGED <<engineVars, scorerVars, uiVars>>
    /\ UNCHANGED <<catalog, items, budget, optimize_for, engineAnswer, idx,
                   candidates, selections, chosen, sorted_items, included,
                   current_cost, fit_step, warnings>>
    /\ UNCHANGED result

----------------------------------------------------------------------------
(* Phase 4: result construction *)

\* total cost of the returned selections
TotalCost(is, choice) == CostOf(is, choice)

Build ==
    /\ pc = "build"
    /\ result' = [status |-> "ok",
                  total_cost |-> TotalCost(included, chosen),
                  optimized_items |->
                      [k \in 1..Len(included) |->
                          [item |-> included[k],
                           selected_product |-> chosen[included[k]]]],
                  warnings |-> warnings]
    /\ pc' = "done"
    /\ UNCHANGED <<engineVars, scorerVars, uiVars>>
    /\ UNCHANGED <<catalog, items, budget, optimize_for, engineAnswer, idx,
                   candidates, selections, chosen, sorted_items, included,
                   current_cost, fit_step, warnings>>

----------------------------------------------------------------------------
(* Components at rest: the state of a component no call has reached yet *)

NoData == <<>>
NoScores == [economic_score |-> 0, environmental_score |-> 0,
             social_score |-> 0, health_score |-> 0]
NoAttrs == [name |-> "none"]

OptimizerIdle ==
    /\ catalog = <<>>
    /\ items = <<>>
    /\ budget = NoBudget
    /\ optimize_for = "balanced"
    /\ engineAnswer = <<>>
    /\ pc = "idle"
    /\ idx = 1
    /\ candidates = <<>>
    /\ selections = <<>>
    /\ chosen = <<>>
    /\ sorted_items = <<>>
    /\ included = <<>>
    /\ current_cost = 0
    /\ fit_step = 0
    /\ warnings = <<>>
    /\ result = NoResult

EngineIdle ==
    /\ original = 0
    /\ pool = <<>>
    /\ preferences = {}
    /\ max_results = 0
    /\ stage = "idle"
    /\ working = <<>>
    /\ suggestions = <<>>
    /\ sug_similarity = 0
    /\ sug_quality = 0
    /\ confidence = ""

ScorerIdle ==
    /\ attrs = NoAttrs
    /\ sub_scores = NoScores
    /\ overall = 0
    /\ scorer_pc = "idle"

\* the four requests of the dashboard, and its four data states
DashboardParts == {"stats", "topSustainable", "bestValue", "savingsOps"}

\* App mounts on the optimizer tab with nothing to hand over; no other view
\* is mounted and no toast is on screen
UIIdle ==
    /\ activeTab = "optimizer"
    /\ navigationData = NoData
    /\ optimizerResult = <<>>
    /\ loading = FALSE
    /\ optimizeInFlight = 0
    /\ orphanInFlight = FALSE
    /\ products = <<>>
    /\ selectedProducts = <<>>
    /\ comparison = NoData
    /\ pendingCompare = NoData
    /\ dashPhase = "unmounted"
    /\ dashLoading = TRUE
    /\ dashRequests = [r \in DashboardParts |-> "idle"]
    /\ dashData = [r \in DashboardParts |-> "initial"]
    /\ filterOrganic = FALSE
    /\ filterLocal = FALSE
    /\ shownStores = <<>>
    /\ toasts = {}
    /\ timers = <<>>

----------------------------------------------------------------------------
(* The optimize call *)

\* answers of engine.find_substitutes_by_name over a catalog
EngineAnswers(cat) == {<<>>} \cup {<<p.id>> : p \in {q \in Range(cat) : q.id \in {5, 6}}}

Init ==
    /\ catalog \in {CatalogOf(S) : S \in CatalogShapes}
    /\ items \in ItemLists
    /\ budget \in Budgets
    /\ optimize_for \in Focuses
    /\ engineAnswer \in EngineAnswers(catalog)
    /\ pc = "match"
    /\ idx = 1
    /\ candidates = [i \in 1..Len(items) |-> <<>>]
    /\ selections = [i \in 1..Len(items) |-> 0]
    /\ chosen = [i \in 1..Len(items) |-> 0]
    /\ sorted_items = <<>>
    /\ included = <<>>
    /\ current_cost = 0
    /\ fit_step = 0
    /\ warnings = <<>>
    /\ result = NoResult
    /\ EngineIdle
    /\ ScorerIdle
    /\ UIIdle

Next ==
    \/ MatchItem
    \/ MatchDone
    \/ SelectItem
    \/ SelectDone
    \/ FitKeep
    \/ FitCheap
    \/ FitSort
    \/ GreedyStep
    \/ GreedyDone
    \/ UpgradeStep
    \/ UpgradeDone
    \/ Build

Spec == Init /\ [][Next]_vars

----------------------------------------------------------------------------
(* Properties of the optimizer *)

Done == pc = "done"
Finite == budget # NoBudget
MatchedSet == Range(Matched)
IncludedSet == Range(included)
ExcludedSet == MatchedSet \ IncludedSet
WarningsOf(kind, i) == {k \in 1..Len(warnings) : warnings[k] = Warning(kind, i)}
ResultItems == {result.optimized_items[k].item : k \in 1..Len(result.optimized_items)}

\* cheapest price x quantity of a matched item, computed from the catalog
CheapestCost(i) ==
    LET prices == {Product(candidates[i][k]).price : k \in 1..Len(candidates[i])}
    IN  (CHOOSE m \in prices : \A q \in prices : m <= q) * items[i].quantity

\* item i is strictly more efficient than item j: (6 - priority) / cost
Efficienter(i, j) ==
    (6 - items[i].priority) * CheapestCost(j) > (6 - items[j].priority) * CheapestCost(i)

\* item i is considered before item j in the efficiency step
ConsideredBefore(i, j) ==
    Efficienter(i, j) \/ (~Efficienter(j, i) /\ i < j)

\* C1: with a finite budget that affords at least one matched item's cheapest
\* candidate, the returned total_cost is at most the budget, upgrades included
C1_TotalWithinBudget ==
    (Done /\ Finite /\ \E i \in MatchedSet : CheapestCost(i) <= Ceiling)
        => result.total_cost <= Ceiling

\* a step-3 result in which a retained item was upgraded and another excluded
C1_Witness ==
    /\ Done /\ Finite /\ fit_step = 3
    /\ ExcludedSet # {}
    /\ \E i \in IncludedSet : Product(chosen[i]).price > CheapestCost(i) \div items[i].quantity
    /\ result.total_cost <= Ceiling

ScenarioC(i, j) ==
    /\ Len(items) = 2 /\ {i, j} = {1, 2} /\ i # j
    /\ MatchedSet = {1, 2}
    /\ items[i].priority = 1 /\ items[j].priority = 5
    /\ Finite
    /\ CheapestCost(i) + CheapestCost(j) = Ceiling + CheapestCost(j)

Phase2Total ==
    SumSeq([k \in 1..Len(Matched) |->
               Product(selections[Matched[k]]).price * items[Matched[k]].quantity])

C6_InvalidFocusFailsFast ==
    (optimize_for \notin ValidFocus) =>
        /\ \A i \in 1..Len(items) : selections[i] = 0
        /\ Done => result.status = "InvalidOptimizationFocus"

\* C7 (as claimed): every selected product has its item's category, unless the
\* category had no candidate and the selection is a flagged substitution
C7_CategoryPreserved ==
    Done => \A i \in ResultItems :
                \/ Product(chosen[i]).category = items[i].category
                \/ /\ CategoryMatches(items[i]) = <<>>
                   /\ WarningsOf("substituted", i) # {}

\* the key each focus optimises, larger is better
FocusKey(i, pid) ==
    CASE optimize_for = "price" -> 0 - Product(pid).price
      [] optimize_for = "sustainability" -> Product(pid).overall_score
      [] optimize_for = "health" -> Product(pid).health_score
      [] optimize_for = "balanced" -> balanced_score(items[i], pid)

\* position k of item i's candidates attains the focus optimum
Optimal(i, k) ==
    \A n \in 1..Len(candidates[i]) :
        FocusKey(i, candidates[i][k]) >= FocusKey(i, candidates[i][n])

WasMatched(i) == pc # "match" \/ idx > i

\* C10 (as claimed): an item for which candidate matching finds nothing is
\* warned about and takes no part in selection, fitting or the result
C10_NoCandidatesNoPart ==
    \A i \in 1..Len(items) :
        (WasMatched(i) /\ _find_candidate_products(items[i]) = <<>>) =>
            /\ \E k \in 1..Len(warnings) : warnings[k].item = i
            /\ candidates[i] = <<>>
            /\ selections[i] = 0
            /\ i \notin IncludedSet
            /\ Done => i \notin ResultItems

\* C10 (amended): an item for which candidate matching finds nothing and the
\* substitution fallback finds nothing either gets exactly one warning and
\* takes no part in selection, fitting or the result; if the fallback finds
\* substitutes they become its candidates, with a substitution warning; in
\* neither case is there an error, and every other matched item is still
\* either returned or excluded by budget fitting
C10_UnmatchedOnlyWithoutSubstitutes ==
    \A i \in 1..Len(items) :
        (WasMatched(i) /\ _find_candidate_products(items[i]) = <<>>) =>
            /\ IF engineAnswer = <<>>
               THEN /\ Cardinality({k \in 1..Len(warnings) : warnings[k].item = i}) = 1
                    /\ WarningsOf("unmatched", i) # {}
                    /\ candidates[i] = <<>>
                    /\ selections[i] = 0 /\ chosen[i] = 0
                    /\ i \notin IncludedSet
                    /\ Done => i \notin ResultItems
               ELSE /\ candidates[i] = engineAnswer
                    /\ Cardinality(WarningsOf("substituted", i)) = 1
                    /\ WarningsOf("unmatched", i) = {}
            /\ Done =>
                  /\ result.status = "ok"
                  /\ \A j \in MatchedSet :
                        j \in ResultItems \/ WarningsOf("excluded", j) # {}

\* a finished call with one unmatched item and another item returned
C10_Witness ==
    /\ Done /\ engineAnswer = <<>>
    /\ \E i, j \in 1..Len(items) :
          /\ _find_candidate_products(items[i]) = <<>>
          /\ WarningsOf("unmatched", i) # {}
          /\ j \in ResultItems

----------------------------------------------------------------------------
(* SustainabilityScorer (sustainability_scoring.md): calculate_score is   *)
(* scorer_pc: start -> aggregate -> scored.  Sub-scores are points, the    *)
(* overall score is kept in hundredths of a point.                         *)

\* an optional numeric attribute is <<v>>, or <<>> when the product lacks it
Absent == <<>>

\* the weights of overall_score, in hundredths
ECONOMIC_WEIGHT == 25
ENVIRONMENTAL_WEIGHT == 30
SOCIAL_WEIGHT == 20
SCORER_HEALTH_WEIGHT == 25

\* the attributes calculate_score reads; carbon_footprint in tenths of kg
ScoredProducts ==
    [price : {900, 1500},
     category_average : {1200},
     discount : {Absent, <<0>>, <<5>>, <<50>>},
     unit_price : {8, 12},
     threshold : {10},
     carbon_footprint : {Absent, <<5>>, <<15>>, <<30>>},
     local_product : BOOLEAN,
     packaging_recyclable : BOOLEAN,
     labels : {{}, {"organic"}},
     fair_trade : BOOLEAN,
     social_certifications : BOOLEAN,
     nutri_score : {"A", "C", "E", "none"},
     no_additives : BOOLEAN,
     high_fiber : BOOLEAN,
     high_protein : BOOLEAN]

Min(a, b) == IF a <= b THEN a ELSE b

\* a missing numeric attribute contributes nothing
Below(x, limit) == IF x = Absent THEN FALSE ELSE x[1] < limit
Above(x, limit) == IF x = Absent THEN FALSE ELSE x[1] > limit

\* the discount bonus without its cap and the score without its clamp
calculate_economic_score_unbounded(p) ==
    50 + (IF p.price < p.category_average THEN 20 ELSE 0)
       + (IF Above(p.discount, 0)
          THEN p.discount[1] * 2 ELSE 0)
       + (IF p.unit_price < p.threshold THEN 10 ELSE 0)

calculate_economic_score(p) ==
    Min(50 + (IF p.price < p.category_average THEN 20 ELSE 0)
           + (IF Above(p.discount, 0)
              THEN Min(p.discount[1] * 2, 20) ELSE 0)
           + (IF p.unit_price < p.threshold THEN 10 ELSE 0),
        100)

calculate_environmental_score(p) ==
    Min(50 + (IF Below(p.carbon_footprint, 10) THEN 15
              ELSE IF Below(p.carbon_footprint, 20) THEN 10 ELSE 0)
           + (IF p.local_product THEN 15 ELSE 0)
           + (IF p.packaging_recyclable THEN 10 ELSE 0)
           + (IF "organic" \in p.labels THEN 10 ELSE 0),
        100)

calculate_social_score(p) ==
    Min(50 + (IF p.fair_trade THEN 20 ELSE 0)
           + (IF p.local_product THEN 15 ELSE 0)
           + (IF p.social_certifications THEN 15 ELSE 0),
        100)

\* {'A': 20, 'B': 15, 'C': 10, 'D': 5, 'E': 0}.get(nutri_score, 0)
nutri_bonus(grade) ==
    CASE grade = "A" -> 20
      [] grade = "B" -> 15
      [] grade = "C" -> 10
      [] grade = "D" -> 5
      [] OTHER -> 0

calculate_health_score(p) ==
    Min(50 + nutri_bonus(p.nutri_score)
           + (IF "organic" \in p.labels THEN 10 ELSE 0)
           + (IF p.no_additives THEN 10 ELSE 0)
           + (IF p.high_fiber \/ p.high_protein THEN 10 ELSE 0),
        100)

\* overall_score, in hundredths of a point
overall_score(s) ==
    ECONOMIC_WEIGHT * s.economic_score
    + ENVIRONMENTAL_WEIGHT * s.environmental_score
    + SOCIAL_WEIGHT * s.social_score
    + SCORER_HEALTH_WEIGHT * s.health_score

ScoreDimensions ==
    /\ scorer_pc = "start"
    /\ sub_scores' = [economic_score |-> calculate_economic_score(attrs),
                      environmental_score |->
                          calculate_environmental_score(attrs),
                      social_score |-> calculate_social_score(attrs),
                      health_score |-> calculate_health_score(attrs)]
    /\ scorer_pc' = "aggregate"
    /\ UNCHANGED <<attrs, overall>>
    /\ UNCHANGED <<optVars, engineVars, uiVars>>

Aggregate ==
    /\ scorer_pc = "aggregate"
    /\ overall' = overall_score(sub_scores)
    /\ scorer_pc' = "scored"
    /\ UNCHANGED <<attrs, sub_scores>>
    /\ UNCHANGED <<optVars, engineVars, uiVars>>

InitScorer ==
    /\ attrs \in ScoredProducts
    /\ sub_scores = NoScores
    /\ overall = 0
    /\ scorer_pc = "start"
    /\ OptimizerIdle
    /\ EngineIdle
    /\ UIIdle

NextScorer ==
    \/ ScoreDimensions
    \/ Aggregate

SpecScorer == InitScorer /\ [][NextScorer]_vars

\* the sub-scores of the documented examples and of their neighbourhood
ExampleScores == {25, 35, 45, 65, 70, 80, 85, 90}

\* a SustainabilityScore handed to overall_score directly
InitOverall ==
    /\ attrs = NoAttrs
    /\ sub_scores \in [economic_score : ExampleScores,
                       environmental_score : ExampleScores,
                       social_score : ExampleScores,
                       health_score : ExampleScores]
    /\ overall = 0
    /\ scorer_pc = "aggregate"
    /\ OptimizerIdle
    /\ EngineIdle
    /\ UIIdle

NextOverall == Aggregate

SpecOverall == InitOverall /\ [][NextOverall]_vars

----------------------------------------------------------------------------
(* Properties of the scorer *)

Scored == scorer_pc = "scored"
Points == 0..100

Example1 == [economic_score |-> 65, environmental_score |-> 90,
             social_score |-> 85, health_score |-> 80]
Example2 == [economic_score |-> 70, environmental_score |-> 35,
             social_score |-> 45, health_score |-> 25]

\* C19: the overall-score formula gives 80.5 for the sub-scores 65/90/85/80
\* and 43.0 for the sub-scores 70/35/45/25 (overall in hundredths)
C19_ExamplesReproduced ==
    Scored =>
        /\ sub_scores = Example1 => overall = 8050
        /\ sub_scores = Example2 => overall = 4300

----------------------------------------------------------------------------
(* SubstitutionEngine (substitution_engine.md): find_substitutes is        *)
(* stage: filter -> search -> score -> rank -> cap -> soften -> done.      *)
(* Similarity is kept in tenths of a point.                                *)

\* one similarity point
Point == 10

MAX_SUBSTITUTES == 5
MIN_SIMILARITY_THRESHOLD == 40

HardPreferences == {"gluten_free", "vegan", "lactose_free"}
SoftPreferences == {"organic", "local"}

\* the shelf the engine works on; a name is its sequence of words
Shelf ==
    << [id |-> 1, name |-> <<"Queso", "Gouda">>, category |-> "dairy",
        price |-> 3000, brand |-> "Colun", labels |-> {},
        local_product |-> FALSE],
       [id |-> 2, name |-> <<"Leche", "Colun">>, category |-> "dairy",
        price |-> 1490, brand |-> "Colun",
        labels |-> {"organic", "gluten_free", "lactose_free"},
        local_product |-> TRUE],
       [id |-> 3, name |-> <<"Queso", "Mantecoso">>, category |-> "dairy",
        price |-> 2800, brand |-> "Colun", labels |-> {},
        local_product |-> TRUE],
       [id |-> 4, name |-> <<"Queso", "Vegano", "NotCo">>,
        category |-> "dairy", price |-> 3200, brand |-> "NotCo",
        labels |-> {"vegan", "lactose_free"}, local_product |-> FALSE],
       [id |-> 5, name |-> <<"Queso", "Chanco">>, category |-> "dairy",
        price |-> 3100, brand |-> "Soprole", labels |-> {"organic"},
        local_product |-> TRUE],
       [id |-> 6, name |-> <<"Queso", "Crema">>, category |-> "dairy",
        price |-> 1400, brand |-> "Soprole", labels |-> {"gluten_free"},
        local_product |-> FALSE],
       [id |-> 7, name |-> <<"Leche", "Soprole">>, category |-> "dairy",
        price |-> 1450, brand |-> "Soprole", labels |-> {},
        local_product |-> FALSE],
       [id |-> 8, name |-> <<"Leche", "Organica">>, category |-> "dairy",
        price |-> 2100, brand |-> "Colun",
        labels |-> {"organic", "gluten_free", "lactose_free"},
        local_product |-> TRUE],
       [id |-> 9, name |-> <<"Leche", "de", "Almendras">>,
        category |-> "plant_milk", price |-> 2600, brand |-> "Colun",
        labels |-> {"vegan", "organic", "gluten_free", "lactose_free"},
        local_product |-> FALSE],
       [id |-> 10, name |-> <<"Tofu", "Firme">>, category |-> "tofu",
        price |-> 2500, brand |-> "NotCo",
        labels |-> {"vegan", "gluten_free"}, local_product |-> FALSE] >>

Originals == {1, 2}
PoolIds == {3, 4, 5, 6, 7, 8, 9, 10}
MaxResultsChoices == {2, MAX_SUBSTITUTES}

\* the members of S in catalog order
RECURSIVE InOrder(_)
InOrder(S) ==
    IF S = {} THEN <<>>
    ELSE LET m == CHOOSE x \in S : \A y \in S : x <= y
         IN <<m>> \o InOrder(S \ {m})

Pools == {InOrder(S) : S \in SUBSET PoolIds}

\* length of the longest common subsequence of two names
RECURSIVE LCS(_, _)
LCS(a, b) ==
    IF a = <<>> \/ b = <<>> THEN 0
    ELSE IF Head(a) = Head(b) THEN 1 + LCS(Tail(a), Tail(b))
    ELSE LET x == LCS(Tail(a), b)
             y == LCS(a, Tail(b))
         IN IF x >= y THEN x ELSE y

\* string-similarity ratio, 0..100: twice the matches over the total length
fuzzy_ratio(a, b) == (200 * LCS(a, b)) \div (Len(a) + Len(b))

\* calculate_similarity(product_a, product_b), in tenths of a point
calculate_similarity(a, b) ==
    LET pa == Shelf[a]
        pb == Shelf[b]
        lo == Min(pa.price, pb.price)
        hi == IF pa.price >= pb.price THEN pa.price ELSE pb.price
        shared_labels == pa.labels \cap pb.labels
    IN Min((IF pa.category = pb.category THEN 40 * Point ELSE 0)
           + fuzzy_ratio(pa.name, pb.name) * 2
           + (IF 10 * lo > 7 * hi THEN 20 * Point
              ELSE IF 10 * lo > 5 * hi THEN 10 * Point ELSE 0)
           + (IF pa.brand = pb.brand THEN 10 * Point ELSE 0)
           + Cardinality(shared_labels) * 5 * Point,
           100 * Point)

\* SUBSTITUTION_MATRIX[category]['alternatives']
SUBSTITUTION_MATRIX(category) ==
    CASE category = "dairy" -> {"plant_milk", "yogurt"}
      [] category = "meat" -> {"legumes", "tofu"}
      [] category = "bread" -> {"cereals", "crackers"}
      [] OTHER -> {}

\* a filter that keeps a candidate carrying any one of the requested labels
apply_mandatory_filters_any(cands, prefs) ==
    IF prefs \cap HardPreferences = {} THEN cands
    ELSE SelectSeq(cands, LAMBDA c :
             Shelf[c].labels \cap prefs \cap HardPreferences # {})

apply_mandatory_filters(cands, prefs) ==
    LET f1 == IF "gluten_free" \in prefs
              THEN SelectSeq(cands,
                             LAMBDA c : "gluten_free" \in Shelf[c].labels)
              ELSE cands
        f2 == IF "vegan" \in prefs
              THEN SelectSeq(f1, LAMBDA c : "vegan" \in Shelf[c].labels)
              ELSE f1
        f3 == IF "lactose_free" \in prefs
              THEN SelectSeq(f2,
                             LAMBDA c : "lactose_free" \in Shelf[c].labels)
              ELSE f2
    IN f3

same_category(orig, cands) ==
    SelectSeq(cands, LAMBDA c : Shelf[c].category = Shelf[orig].category)

alternative_categories(orig, cands) ==
    SelectSeq(cands, LAMBDA c :
        Shelf[c].category \in SUBSTITUTION_MATRIX(Shelf[orig].category))

search_candidates(orig, cands) ==
    IF same_category(orig, cands) # <<>>
    THEN same_category(orig, cands)
    ELSE alternative_categories(orig, cands)

\* a threshold that lets every candidate through
meets_threshold_always(sim) == TRUE

meets_threshold(sim) == sim >= MIN_SIMILARITY_THRESHOLD * Point

above_threshold(orig, cands) ==
    SelectSeq(cands,
              LAMBDA c : meets_threshold(calculate_similarity(orig, c)))

\* sorted(seq, key, reverse=True): descending, equal keys in input order
RECURSIVE SortedDescending(_, _)
SortedDescending(seq, key) ==
    IF seq = <<>> THEN <<>>
    ELSE LET k == CHOOSE i \in 1..Len(seq) :
                      /\ \A j \in 1..Len(seq) : key[seq[j]] <= key[seq[i]]
                      /\ \A j \in 1..(i - 1) : key[seq[j]] < key[seq[i]]
         IN <<seq[k]>> \o
            SortedDescending(SubSeq(seq, 1, k - 1)
                             \o SubSeq(seq, k + 1, Len(seq)), key)

sort_by_similarity(orig, cands) ==
    SortedDescending(cands,
        [c \in Range(cands) |-> calculate_similarity(orig, c)])

\* a return that forgets the cap
top_n_all(cands, n) == cands

top_n(cands, n) == SubSeq(cands, 1, Min(n, Len(cands)))

preference_score(c, prefs) ==
    (IF "organic" \in prefs /\ "organic" \in Shelf[c].labels
     THEN 10 ELSE 0)
    + (IF "local" \in prefs /\ Shelf[c].local_product THEN 10 ELSE 0)

\* a soft preference applied as a filter: only the best-matching stay
apply_soft_preferences_excluding(cands, prefs) ==
    SelectSeq(cands, LAMBDA c :
        \A d \in Range(cands) :
            preference_score(d, prefs) <= preference_score(c, prefs))

apply_soft_preferences(cands, prefs) ==
    SortedDescending(cands,
        [c \in Range(cands) |-> preference_score(c, prefs)])

\* the whole flow as one function of the call's arguments
find_substitutes(orig, pl, prefs, n) ==
    apply_soft_preferences(
        top_n(sort_by_similarity(orig,
                  above_threshold(orig,
                      search_candidates(orig,
                          apply_mandatory_filters(pl, prefs)))), n),
        prefs)

callVars == <<original, pool, preferences, max_results>>
confVars == <<sug_similarity, sug_quality, confidence>>

Filter ==
    /\ stage = "filter"
    /\ working' = apply_mandatory_filters(pool, preferences)
    /\ stage' = "search"
    /\ UNCHANGED <<callVars, confVars, suggestions>>
    /\ UNCHANGED <<optVars, scorerVars, uiVars>>

SearchSameCategory ==
    /\ stage = "search"
    /\ same_category(original, working) # <<>>
    /\ working' = same_category(original, working)
    /\ stage' = "score"
    /\ UNCHANGED <<callVars, confVars, suggestions>>
    /\ UNCHANGED <<optVars, scorerVars, uiVars>>

SearchAlternatives ==
    /\ stage = "search"
    /\ same_category(original, working) = <<>>
    /\ working' = alternative_categories(original, working)
    /\ stage' = "score"
    /\ UNCHANGED <<callVars, confVars, suggestions>>
    /\ UNCHANGED <<optVars, scorerVars, uiVars>>

Threshold ==
    /\ stage = "score"
    /\ working' = above_threshold(original, working)
    /\ stage' = "rank"
    /\ UNCHANGED <<callVars, confVars, suggestions>>
    /\ UNCHANGED <<optVars, scorerVars, uiVars>>

SortBySimilarity ==
    /\ stage = "rank"
    /\ working' = sort_by_similarity(original, working)
    /\ stage' = "cap"
    /\ UNCHANGED <<callVars, confVars, suggestions>>
    /\ UNCHANGED <<optVars, scorerVars, uiVars>>

TopN ==
    /\ stage = "cap"
    /\ working' = top_n(working, max_results)
    /\ stage' = "soften"
    /\ UNCHANGED <<callVars, confVars, suggestions>>
    /\ UNCHANGED <<optVars, scorerVars, uiVars>>

\* the suggestions leave in soft-preference order, each with its similarity
Suggest ==
    /\ stage = "soften"
    /\ LET ranked == apply_soft_preferences(working, preferences)
       IN /\ working' = ranked
          /\ suggestions' =
                 [k \in 1..Len(ranked) |->
                     [product |-> ranked[k],
                      similarity_score |->
                          calculate_similarity(original, ranked[k])]]
    /\ stage' = "done"
    /\ UNCHANGED <<callVars, confVars>>
    /\ UNCHANGED <<optVars, scorerVars, uiVars>>

InitEngine ==
    /\ original \in Originals
    /\ pool \in Pools
    /\ preferences \in SUBSET (HardPreferences \cup SoftPreferences)
    /\ max_results \in MaxResultsChoices
    /\ stage = "filter"
    /\ working = <<>>
    /\ suggestions = <<>>
    /\ sug_similarity = 0
    /\ sug_quality = 0
    /\ confidence = ""
    /\ OptimizerIdle
    /\ ScorerIdle
    /\ UIIdle

NextEngine ==
    \/ Filter
    \/ SearchSameCategory
    \/ SearchAlternatives
    \/ Threshold
    \/ SortBySimilarity
    \/ TopN
    \/ Suggest

SpecEngine == InitEngine /\ [][NextEngine]_vars

----------------------------------------------------------------------------
(* Confidence level of a suggestion (README, Nivel de Confianza).          *)
(* sug_similarity is in hundredths (70 = 0.7), sug_quality in points.      *)

\* High read as "either condition is enough"
is_high_either(sim, q) == sim >= 70 \/ q >= 70

is_high(sim, q) == sim >= 70 /\ q >= 70
is_low(sim, q) == sim < 40 \/ q < 50
\* "valores intermedios": neither of the two
is_medium(sim, q) == ~is_high(sim, q) /\ ~is_low(sim, q)

\* the levels whose documented condition the suggestion meets
confidence_levels(sim, q) ==
    {l \in {"high", "medium", "low"} :
        \/ l = "high" /\ is_high(sim, q)
        \/ l = "medium" /\ is_medium(sim, q)
        \/ l = "low" /\ is_low(sim, q)}

Classify ==
    /\ stage = "classify"
    /\ confidence' \in confidence_levels(sug_similarity, sug_quality)
    /\ stage' = "classified"
    /\ UNCHANGED <<callVars, working, suggestions, sug_similarity,
                   sug_quality>>
    /\ UNCHANGED <<optVars, scorerVars, uiVars>>

SimilarityGrid == {0, 20, 39, 40, 41, 55, 69, 70, 71, 100}
QualityGrid == {0, 30, 49, 50, 51, 60, 69, 70, 71, 100}

InitConfidence ==
    /\ original = 0
    /\ pool = <<>>
    /\ preferences = {}
    /\ max_results = 0
    /\ stage = "classify"
    /\ working = <<>>
    /\ suggestions = <<>>
    /\ sug_similarity \in SimilarityGrid
    /\ sug_quality \in QualityGrid
    /\ confidence = ""
    /\ OptimizerIdle
    /\ ScorerIdle
    /\ UIIdle

NextConfidence == Classify

SpecConfidence == InitConfidence /\ [][NextConfidence]_vars

----------------------------------------------------------------------------
(* Properties of the substitution engine *)

Returned == stage = "done"
SuggestedIds == {suggestions[k].product : k \in 1..Len(suggestions)}
SuggestedOrder == [k \in 1..Len(suggestions) |-> suggestions[k].product]

\* c carries the label of every hard preference of the call
HasRequested(c) ==
    \A h \in preferences \cap HardPreferences : h \in Shelf[c].labels

\* C12: whatever the pool and the hard preferences, every candidate that
\* is past the mandatory filters, and every suggestion returned, carries
\* the label of each requested hard preference
C12_HardPreferencesRespected ==
    /\ stage \in {"search", "score", "rank", "cap", "soften", "done"} =>
           \A k \in 1..Len(working) : HasRequested(working[k])
    /\ \A c \in SuggestedIds : HasRequested(c)

\* a vegan call answered through the category fallback, soft preferences
\* present, with a non-vegan candidate of the original's category in the pool
C12_Witness ==
    /\ Returned
    /\ "vegan" \in preferences
    /\ preferences \cap SoftPreferences # {}
    /\ suggestions # <<>>
    /\ \E c \in Range(pool) :
           /\ "vegan" \notin Shelf[c].labels
           /\ Shelf[c].category = Shelf[original].category
    /\ \E c \in SuggestedIds : Shelf[c].category # Shelf[original].category

VeganInPool == {c \in Range(pool) : "vegan" \in Shelf[c].labels}
OneVeganCall ==
    Returned /\ "vegan" \in preferences /\ Cardinality(VeganInPool) = 1

InSearchedCategory(v) ==
    \/ Shelf[v].category = Shelf[original].category
    \/ Shelf[v].category \in SUBSTITUTION_MATRIX(Shelf[original].category)

C15_AtMostMaxResults ==
    /\ Len(suggestions) <= max_results
    /\ stage \in {"soften", "done"} => Len(working) <= max_results

\* six candidates of the original's category, default maximum: five returned
C15_Witness ==
    /\ Returned
    /\ max_results = MAX_SUBSTITUTES
    /\ Cardinality({c \in Range(pool) :
           Shelf[c].category = Shelf[original].category}) > MAX_SUBSTITUTES
    /\ preferences \cap HardPreferences = {}
    /\ Len(suggestions) = MAX_SUBSTITUTES

\* C16: every suggestion carries a similarity in [0,1] (0..1 point)
C16_SimilarityInUnitInterval ==
    \A k \in 1..Len(suggestions) :
        suggestions[k].similarity_score \in 0..Point

----------------------------------------------------------------------------
(* React state of App and of the views it renders.  App renders one tab at *)
(* a time: leaving a tab unmounts its component, and its state starts      *)
(* afresh when the tab is opened again.  A request sent by a view that has *)
(* been unmounted stays in flight; its answer changes nothing on screen.   *)
(* The toasts raised by the handlers are followed on their own below.      *)

Tabs == {"optimizer", "search", "compare", "dashboard", "stores"}

\* productsAPI.getAll(): the ids of the catalog, each once
LoadedProducts == <<1, 2, 3, 4, 5>>

\* selected_product.id of result.optimized_items, item by item
OptimizedItems ==
    {<<1, 2>>, <<2, 2, 3>>, <<5, 4, 3, 2, 1>>, <<1, 2, 3, 4, 5, 5>>, <<6>>}

MAX_COMPARE == 4

\* setTimeout(..., 4000), in seconds
TOAST_SECONDS == 4

\* the five stores of the map
MOCK_STORES ==
    << [name |-> "Jumbo Kennedy", hasOrganic |-> TRUE, hasLocal |-> TRUE],
       [name |-> "Lider Providencia", hasOrganic |-> TRUE,
        hasLocal |-> FALSE],
       [name |-> "Santa Isabel Vitacura", hasOrganic |-> FALSE,
        hasLocal |-> TRUE],
       [name |-> "Tottus Plaza Egana", hasOrganic |-> TRUE,
        hasLocal |-> TRUE],
       [name |-> "Unimarc Nunoa", hasOrganic |-> FALSE, hasLocal |-> TRUE] >>

\* a filter that keeps a store as soon as it passes one checked filter
filteredStores_either(stores, organic, local) ==
    SelectSeq(stores,
              LAMBDA store :
                  \/ ~organic /\ ~local
                  \/ organic /\ store.hasOrganic
                  \/ local /\ store.hasLocal)

\* stores.filter(store => ...): a store failing a checked filter is dropped
filteredStores(stores, organic, local) ==
    SelectSeq(stores,
              LAMBDA store :
                  IF organic /\ ~store.hasOrganic THEN FALSE
                  ELSE IF local /\ ~store.hasLocal THEN FALSE
                  ELSE TRUE)

\* what the view of a freshly opened tab holds; the optimize request of the
\* view left behind is not cancelled
Mounted(tab) ==
    /\ optimizerResult' = <<>>
    /\ loading' = FALSE
    /\ optimizeInFlight' = 0
    /\ orphanInFlight' = (orphanInFlight \/ optimizeInFlight > 0)
    /\ products' = <<>>
    /\ selectedProducts' = <<>>
    /\ comparison' = NoData
    /\ pendingCompare' = NoData
    /\ dashPhase' = IF tab = "dashboard" THEN "loading" ELSE "unmounted"
    /\ dashLoading' = TRUE
    /\ dashRequests' = [r \in DashboardParts |->
                           IF tab = "dashboard" THEN "pending" ELSE "idle"]
    /\ dashData' = [r \in DashboardParts |-> "initial"]
    /\ filterOrganic' = FALSE
    /\ filterLocal' = FALSE
    /\ shownStores' = IF tab = "stores"
                      THEN filteredStores(MOCK_STORES, FALSE, FALSE)
                      ELSE <<>>

viewVars == <<optimizerViewVars, orphanInFlight, comparatorVars,
              dashboardVars, storeMapVars>>

\* every toast on screen starts a fresh timer
Restarted(shown) == [t \in shown |-> TOAST_SECONDS]

\* ToastProvider is rendered by App: when App's state changed it renders
\* again with a new removeToast, and the effect of every toast, which
\* depends on [id, onClose], clears its timer and sets a new one
AppRendered ==
    /\ toasts' = toasts
    /\ timers' = IF appVars' = appVars THEN timers ELSE Restarted(toasts)

\* a navigateTo that leaves the data of the last hand-over in place
NavigateToKeeping(tab) ==
    /\ navigationData' = navigationData
    /\ activeTab' = tab
    /\ IF tab = activeTab THEN UNCHANGED viewVars ELSE Mounted(tab)
    /\ AppRendered
    /\ UNCHANGED <<optVars, engineVars, scorerVars>>

\* navigateTo(tab) of the header and of the shortcut buttons
NavigateTo(tab) ==
    /\ navigationData' = NoData
    /\ activeTab' = tab
    /\ IF tab = activeTab THEN UNCHANGED viewVars ELSE Mounted(tab)
    /\ AppRendered
    /\ UNCHANGED <<optVars, engineVars, scorerVars>>

\* disabled={loading || items.length === 0}, for a list with items
button_enabled(isLoading) == ~isLoading

\* handleOptimize up to its await: the request leaves
HandleOptimize ==
    /\ activeTab = "optimizer"
    /\ button_enabled(loading)
    /\ loading' = TRUE
    /\ optimizeInFlight' = optimizeInFlight + 1
    /\ UNCHANGED <<appVars, optimizerResult, orphanInFlight, comparatorVars,
                   dashboardVars, storeMapVars, toastVars>>
    /\ UNCHANGED <<optVars, engineVars, scorerVars>>

\* handleOptimize after its await: the optimizer answered
OptimizeResolved(ids) ==
    /\ activeTab = "optimizer"
    /\ optimizeInFlight > 0
    /\ optimizerResult' = ids
    /\ loading' = FALSE
    /\ optimizeInFlight' = optimizeInFlight - 1
    /\ UNCHANGED <<appVars, orphanInFlight, comparatorVars, dashboardVars,
                   storeMapVars, toastVars>>
    /\ UNCHANGED <<optVars, engineVars, scorerVars>>

\* handleOptimize after its await: the request failed
OptimizeRejected ==
    /\ activeTab = "optimizer"
    /\ optimizeInFlight > 0
    /\ loading' = FALSE
    /\ optimizeInFlight' = optimizeInFlight - 1
    /\ UNCHANGED <<appVars, optimizerResult, orphanInFlight, comparatorVars,
                   dashboardVars, storeMapVars, toastVars>>
    /\ UNCHANGED <<optVars, engineVars, scorerVars>>

\* the last request of an unmounted optimizer view settles
OrphanSettles ==
    /\ orphanInFlight
    /\ orphanInFlight' = FALSE
    /\ UNCHANGED <<appVars, optimizerViewVars, comparatorVars, dashboardVars,
                   storeMapVars, toastVars>>
    /\ UNCHANGED <<optVars, engineVars, scorerVars>>

\* result.optimized_items.slice(0, 4).map(item => item.selected_product.id)
productIds(ids) == SubSeq(ids, 1, Min(4, Len(ids)))

handleCompareProducts ==
    /\ activeTab = "optimizer"
    /\ Len(optimizerResult) > 0
    /\ navigationData' = <<productIds(optimizerResult)>>
    /\ activeTab' = "compare"
    /\ Mounted("compare")
    /\ AppRendered
    /\ UNCHANGED <<optVars, engineVars, scorerVars>>

loadProducts ==
    /\ activeTab = "compare"
    /\ products = <<>>
    /\ products' = LoadedProducts
    /\ UNCHANGED <<appVars, optimizerViewVars, orphanInFlight,
                   selectedProducts, comparison, pendingCompare,
                   dashboardVars, storeMapVars, toastVars>>
    /\ UNCHANGED <<optVars, engineVars, scorerVars>>

\* the effect on [navigationData, products]
NavigationEffect ==
    /\ activeTab = "compare"
    /\ navigationData # NoData
    /\ Len(products) > 0
    /\ LET productsToSelect ==
               SelectSeq(products,
                         LAMBDA p : p \in Range(navigationData[1]))
       IN selectedProducts' = IF Len(productsToSelect) > 0
                              THEN productsToSelect
                              ELSE selectedProducts
    /\ navigationData' = NoData
    /\ UNCHANGED <<activeTab, optimizerViewVars, orphanInFlight, products,
                   comparison, pendingCompare, dashboardVars, storeMapVars>>
    /\ AppRendered
    /\ UNCHANGED <<optVars, engineVars, scorerVars>>

\* addProduct without its limit
accepts_any_number(selected, product) == product \notin Range(selected)

\* addProduct goes past its two early returns
accepts(selected, product) ==
    /\ product \notin Range(selected)
    /\ ~(Len(selected) >= MAX_COMPARE)

addProduct(product) ==
    /\ activeTab = "compare"
    /\ product \in Range(products)
    /\ accepts(selectedProducts, product)
    /\ selectedProducts' = Append(selectedProducts, product)
    /\ comparison' = NoData
    /\ UNCHANGED <<appVars, optimizerViewVars, orphanInFlight, products,
                   pendingCompare, dashboardVars, storeMapVars, toastVars>>
    /\ UNCHANGED <<optVars, engineVars, scorerVars>>

removeProduct(productId) ==
    /\ activeTab = "compare"
    /\ productId \in Range(selectedProducts)
    /\ selectedProducts' =
           SelectSeq(selectedProducts, LAMBDA p : p # productId)
    /\ comparison' = NoData
    /\ UNCHANGED <<appVars, optimizerViewVars, orphanInFlight, products,
                   pendingCompare, dashboardVars, storeMapVars, toastVars>>
    /\ UNCHANGED <<optVars, engineVars, scorerVars>>

\* handleCompare up to its await: the request leaves with the ids selected
\* now; the button is followed for one request at a time
handleCompare ==
    /\ activeTab = "compare"
    /\ ~(Len(selectedProducts) < 2)
    /\ pendingCompare = NoData
    /\ pendingCompare' = <<Range(selectedProducts)>>
    /\ UNCHANGED <<appVars, optimizerViewVars, orphanInFlight, products,
                   selectedProducts, comparison, dashboardVars,
                   storeMapVars, toastVars>>
    /\ UNCHANGED <<optVars, engineVars, scorerVars>>

\* handleCompare after its await: setComparison(data), the comparison of the
\* ids that were sent
CompareResolved ==
    /\ activeTab = "compare"
    /\ pendingCompare # NoData
    /\ comparison' = pendingCompare
    /\ pendingCompare' = NoData
    /\ UNCHANGED <<appVars, optimizerViewVars, orphanInFlight, products,
                   selectedProducts, dashboardVars, storeMapVars, toastVars>>
    /\ UNCHANGED <<optVars, engineVars, scorerVars>>

\* handleCompare after its await: the catch branch
CompareRejected ==
    /\ activeTab = "compare"
    /\ pendingCompare # NoData
    /\ pendingCompare' = NoData
    /\ UNCHANGED <<appVars, optimizerViewVars, orphanInFlight, products,
                   selectedProducts, comparison, dashboardVars,
                   storeMapVars, toastVars>>
    /\ UNCHANGED <<optVars, engineVars, scorerVars>>

\* one of the four requests of Promise.all is answered
DashboardResponse(r, outcome) ==
    /\ activeTab = "dashboard"
    /\ dashRequests[r] = "pending"
    /\ dashRequests' = [dashRequests EXCEPT ![r] = outcome]
    /\ UNCHANGED <<appVars, optimizerViewVars, orphanInFlight,
                   comparatorVars, dashPhase, dashLoading, dashData,
                   storeMapVars, toastVars>>
    /\ UNCHANGED <<optVars, engineVars, scorerVars>>

\* a combinator that is fulfilled by the first fulfilled request
promise_any(requests) == \E r \in DashboardParts : requests[r] = "ok"

\* Promise.all is fulfilled when every request is
promise_all(requests) == \A r \in DashboardParts : requests[r] = "ok"

\* Promise.all is rejected as soon as one request is
promise_all_rejected(requests) ==
    \E r \in DashboardParts : requests[r] = "failed"

\* loadDashboardData after its await: the four setters, then finally
DashboardLoaded ==
    /\ activeTab = "dashboard"
    /\ dashPhase = "loading"
    /\ promise_all(dashRequests)
    /\ dashData' = [r \in DashboardParts |-> "response"]
    /\ dashLoading' = FALSE
    /\ dashPhase' = "settled"
    /\ UNCHANGED <<appVars, optimizerViewVars, orphanInFlight,
                   comparatorVars, dashRequests, storeMapVars, toastVars>>
    /\ UNCHANGED <<optVars, engineVars, scorerVars>>

\* loadDashboardData after its await: catch, then finally
DashboardFailed ==
    /\ activeTab = "dashboard"
    /\ dashPhase = "loading"
    /\ promise_all_rejected(dashRequests)
    /\ dashLoading' = FALSE
    /\ dashPhase' = "settled"
    /\ UNCHANGED <<appVars, optimizerViewVars, orphanInFlight,
                   comparatorVars, dashRequests, dashData, storeMapVars,
                   toastVars>>
    /\ UNCHANGED <<optVars, engineVars, scorerVars>>

\* the organic checkbox is clicked
ToggleOrganic ==
    /\ activeTab = "stores"
    /\ filterOrganic' = ~filterOrganic
    /\ shownStores' = filteredStores(MOCK_STORES, filterOrganic', filterLocal)
    /\ UNCHANGED <<appVars, optimizerViewVars, orphanInFlight,
                   comparatorVars, dashboardVars, filterLocal, toastVars>>
    /\ UNCHANGED <<optVars, engineVars, scorerVars>>

\* the local checkbox is clicked
ToggleLocal ==
    /\ activeTab = "stores"
    /\ filterLocal' = ~filterLocal
    /\ shownStores' = filteredStores(MOCK_STORES, filterOrganic, filterLocal')
    /\ UNCHANGED <<appVars, optimizerViewVars, orphanInFlight,
                   comparatorVars, dashboardVars, filterOrganic, toastVars>>
    /\ UNCHANGED <<optVars, engineVars, scorerVars>>

InitUI ==
    /\ UIIdle
    /\ OptimizerIdle
    /\ EngineIdle
    /\ ScorerIdle

NextUI ==
    \/ \E tab \in Tabs : NavigateTo(tab)
    \/ HandleOptimize
    \/ \E ids \in OptimizedItems : OptimizeResolved(ids)
    \/ OptimizeRejected
    \/ OrphanSettles
    \/ handleCompareProducts
    \/ loadProducts
    \/ NavigationEffect
    \/ \E product \in Range(LoadedProducts) : addProduct(product)
    \/ \E productId \in Range(LoadedProducts) : removeProduct(productId)
    \/ handleCompare
    \/ CompareResolved
    \/ CompareRejected
    \/ \E r \in DashboardParts, outcome \in {"ok", "failed"} :
           DashboardResponse(r, outcome)
    \/ DashboardLoaded
    \/ DashboardFailed
    \/ ToggleOrganic
    \/ ToggleLocal

SpecUI == InitUI /\ [][NextUI]_vars

----------------------------------------------------------------------------
(* Properties of the comparator *)

\* C20: whatever was added, removed or handed over by the optimizer, the
\* comparator's selection holds at most 4 products and no id twice
C20_SelectionBounded ==
    /\ Len(selectedProducts) <= 4
    /\ \A i, j \in 1..Len(selectedProducts) :
           i # j => selectedProducts[i] # selectedProducts[j]

\* four products are selected and compared: the selection is at its limit
C20_Witness ==
    /\ activeTab = "compare"
    /\ navigationData = NoData
    /\ Len(selectedProducts) = MAX_COMPARE
    /\ comparison = <<Range(selectedProducts)>>

\* C24: a comparison on screen is the comparison of exactly the products
\* selected now, whenever its response arrived
C24_ComparisonOfSelection ==
    comparison # NoData => comparison = <<Range(selectedProducts)>>

(* Properties of the optimizer view *)

\* optimize requests that were sent and have not settled
RequestsInFlight == optimizeInFlight + (IF orphanInFlight THEN 1 ELSE 0)

\* C25: with the optimizer view on screen at most one optimize request is in
\* flight, and the loading flag is true exactly while one is; it is false
\* again once every request has succeeded or failed
C25_OneRequestWhileLoading ==
    activeTab = "optimizer" =>
        /\ RequestsInFlight <= 1
        /\ loading <=> RequestsInFlight > 0

(* Properties of the dashboard *)

\* C26: once loadDashboardData has settled the loading flag is false, and
\* the four data states hold their responses when all four requests
\* succeeded and their initial values when one of them failed
C26_AllOrNothing ==
    dashPhase = "settled" =>
        /\ ~dashLoading
        /\ \/ \A r \in DashboardParts : dashData[r] = "response"
           \/ \A r \in DashboardParts : dashData[r] = "initial"
        /\ (\E r \in DashboardParts : dashRequests[r] = "failed") =>
               \A r \in DashboardParts : dashData[r] = "initial"
        /\ (\A r \in DashboardParts : dashRequests[r] = "ok") =>
               \A r \in DashboardParts : dashData[r] = "response"

\* the load was given up after one failure, and the other three requests
\* were answered afterwards
C26_Witness ==
    /\ activeTab = "dashboard"
    /\ dashPhase = "settled"
    /\ ~dashLoading
    /\ dashRequests["stats"] = "ok"
    /\ dashRequests["topSustainable"] = "failed"
    /\ dashRequests["bestValue"] = "ok"
    /\ dashRequests["savingsOps"] = "ok"
    /\ \A r \in DashboardParts : dashData[r] = "initial"

----------------------------------------------------------------------------
(* The toasts of ToastProvider.  Time is counted in seconds: a second      *)
(* passes only while no timer is due.                                      *)

\* Date.now() + Math.random(): an id no toast on screen has
ToastIds == {"t1", "t2", "t3", "t4", "t5"}

\* addToast, and the render that follows it
addToast(id) ==
    /\ id \notin toasts
    /\ toasts' = toasts \cup {id}
    /\ timers' = Restarted(toasts')
    /\ UNCHANGED <<appVars, viewVars>>
    /\ UNCHANGED <<optVars, engineVars, scorerVars>>

\* prev.filter(toast => toast.id !== id), and the render that follows it
removeToast(id) ==
    /\ toasts' = {t \in toasts : t # id}
    /\ timers' = Restarted(toasts')
    /\ UNCHANGED <<appVars, viewVars>>
    /\ UNCHANGED <<optVars, engineVars, scorerVars>>

\* the close button of a toast
CloseClick(id) ==
    /\ id \in toasts
    /\ removeToast(id)

\* the callback of setTimeout
TimerFires(id) ==
    /\ id \in toasts
    /\ timers[id] = 0
    /\ removeToast(id)

\* a second passes
Tick ==
    /\ toasts # {}
    /\ \A t \in toasts : timers[t] > 0
    /\ timers' = [t \in toasts |-> timers[t] - 1]
    /\ UNCHANGED <<toasts, appVars, viewVars>>
    /\ UNCHANGED <<optVars, engineVars, scorerVars>>

InitToast ==
    /\ UIIdle
    /\ OptimizerIdle
    /\ EngineIdle
    /\ ScorerIdle

NextToast ==
    \/ \E id \in ToastIds : addToast(id)
    \/ \E id \in ToastIds : CloseClick(id)
    \/ \E id \in ToastIds : TimerFires(id)
    \/ Tick
    \/ \E tab \in Tabs : NavigateTo(tab)

SpecToast == InitToast /\ [][NextToast]_vars

\* seconds do pass, and a timer that is due does fire; nothing obliges
\* anyone to raise a toast, close one or change tab
FairToast ==
    /\ SpecToast
    /\ WF_vars(Tick)
    /\ \A id \in ToastIds : WF_vars(TimerFires(id))

----------------------------------------------------------------------------
(* Properties of the toasts *)

\* C27: every toast that is added is removed later, by its timer if not by
\* a click, and a removal takes only the toast it was asked to take
C27_EveryToastRemoved ==
    /\ \A id \in ToastIds : (id \in toasts) ~> (id \notin toasts)
    /\ [][\A id \in ToastIds :
              (CloseClick(id) \/ TimerFires(id)) =>
                  toasts' = toasts \ {id}]_vars

----------------------------------------------------------------------------
(* Properties of App *)

\* C28: the application starts on the dashboard tab, one tab is active at
\* every moment, and a click on a navigation button makes its tab the
\* active one
C28_StartsOnDashboard ==
    /\ activeTab = "dashboard"
    /\ [](activeTab \in Tabs)
    /\ [][\A tab \in Tabs : NavigateTo(tab) => activeTab' = tab]_vars

\* C30: ids handed over to the comparator are on offer only while the compare
\* tab opened by that hand-over stays on screen; the comparator takes them
\* once, any other navigation drops them, and they are never changed
C30_HandOffOnce ==
    /\ [](navigationData # NoData => activeTab = "compare")
    /\ [][navigationData # NoData =>
              \/ navigationData' = NoData
              \/ UNCHANGED appVars]_vars
    /\ [][NavigationEffect =>
              /\ navigationData' = NoData
              /\ Range(selectedProducts') \subseteq
                     Range(navigationData[1]) \cup Range(selectedProducts)]_vars

\* the optimizer handed over the first four ids of its result, the products
\* are loaded and the comparator is about to take the ids
C30_Witness ==
    /\ activeTab = "compare"
    /\ navigationData = << <<5, 4, 3, 2>> >>
    /\ products = LoadedProducts
    /\ selectedProducts = <<>>
    /\ ENABLED NavigationEffect

----------------------------------------------------------------------------
(* Properties of the store map *)

\* the stores that pass every checked filter
Satisfying ==
    {k \in 1..Len(MOCK_STORES) :
         /\ filterOrganic => MOCK_STORES[k].hasOrganic
         /\ filterLocal => MOCK_STORES[k].hasLocal}

\* C29: whatever was toggled, the list shows each store that passes every
\* checked filter once, and no other store; with no filter checked it shows
\* all five
C29_ShownStores ==
    activeTab = "stores" =>
        /\ {store.name : store \in Range(shownStores)} =
               {MOCK_STORES[k].name : k \in Satisfying}
        /\ Len(shownStores) = Cardinality(Satisfying)
        /\ (~filterOrganic /\ ~filterLocal) => shownStores = MOCK_STORES

\* both boxes are checked: two of the five stores are left
C29_Witness ==
    /\ activeTab = "stores"
    /\ filterOrganic
    /\ filterLocal
    /\ Len(shownStores) = 2
    /\ shownStores[1].name = "Jumbo Kennedy"
    /\ shownStores[2].name = "Tottus Plaza Egana"

----------------------------------------------------------------------------
(* Budget fitting, step by step, and termination of the optimize call *)

\* sum of the cheapest-candidate costs of the matched items
CheapestTotal == SumSeq([k \in 1..Len(Matched) |-> CheapestCost(Matched[k])])

\* cost of the phase-2 choice of item i, and what it adds to the cheapest
Phase2Cost(i) == Product(selections[i]).price * items[i].quantity
Additional(i) == Phase2Cost(i) - CheapestCost(i)
Downgraded(i) == chosen[i] # selections[i]
Exceeds(cost) == IF budget = NoBudget THEN FALSE ELSE cost > budget[1]

\* C21: the step that returns is the first that fits; an item is dropped only
\* when the cheapest costs of the matched items together exceed the budget,
\* and a retained selection differs from its phase-2 choice only when the
\* phase-2 total exceeds the budget
C21_StepsInOrder ==
    Done =>
        /\ fit_step = 1 <=> ~Exceeds(Phase2Total)
        /\ fit_step = 2 <=> (Exceeds(Phase2Total) /\ ~Exceeds(CheapestTotal))
        /\ fit_step = 3 <=> Exceeds(CheapestTotal)
        /\ ExcludedSet # {} => Exceeds(CheapestTotal)
        /\ (\E i \in IncludedSet : Downgraded(i)) => Exceeds(Phase2Total)

\* step 2 returned: nothing dropped, a selection downgraded
C21_Witness ==
    /\ Done
    /\ fit_step = 2
    /\ Len(items) = 2
    /\ ExcludedSet = {}
    /\ \E i \in IncludedSet : Downgraded(i)
    /\ \E i \in IncludedSet : ~Downgraded(i) /\ Additional(i) > 0

\* C22: after the upgrade step every retained item has its cheapest candidate
\* or its phase-2 choice, the total of the retained items is within budget,
\* every upgrade applied adds no more than any upgrade refused, and no
\* refused upgrade would fit
C22_UpgradeAscending ==
    (Done /\ fit_step \in {2, 3} /\ IncludedSet # {}) =>
        /\ result.total_cost <= Ceiling
        /\ \A i \in IncludedSet :
               \/ chosen[i] = selections[i]
               \/ /\ chosen[i] \in Range(candidates[i])
                  /\ Product(chosen[i]).price * items[i].quantity
                         = CheapestCost(i)
        /\ \A i, j \in IncludedSet :
               (~Downgraded(i) /\ Downgraded(j)) =>
                   Additional(i) <= Additional(j)
        /\ \A j \in IncludedSet :
               Downgraded(j) => result.total_cost + Additional(j) > Ceiling

\* one upgrade was applied and a dearer one refused
C22_Witness ==
    /\ Done
    /\ fit_step \in {2, 3}
    /\ \E i, j \in IncludedSet :
           /\ ~Downgraded(i) /\ Additional(i) > 0
           /\ Downgraded(j) /\ Additional(j) > Additional(i)

\* the phases still ahead of the call
PhasesLeft ==
    CASE pc = "match" -> 6
      [] pc = "select" -> 5
      [] pc = "fit" -> 4
      [] pc = "greedy" -> 3
      [] pc = "upgrade" -> 2
      [] pc = "build" -> 1
      [] OTHER -> 0

\* a bound on the steps still ahead: every loop runs over the items once
StepsLeft == PhasesLeft * (Len(items) + 2) + (Len(items) + 2 - idx)

====
